---- MODULE Spec2Model ----
(***************************************************************************)
(* Model of the meeting-scheduler workflow of src/flow.py: the polling     *)
(* flow (email_fetcher <-> email_analysis) and the per-email batch         *)
(* sub-graph, driven by pocketflow's Flow / BatchFlow orchestration.       *)
(* Every node runs prep, exec, post in that order; an exception raised in  *)
(* a stage is not caught anywhere in flow.py, so it propagates out of      *)
(* scheduler_flow.run and the run stops.                                   *)
(***************************************************************************)
EXTENDS Integers, Sequences, FiniteSets, TLC

\* ---------------------------------------------------------------- bounds
MaxMsgs   == 2      \* distinct message ids the mailbox can hand out
MaxEmails == 2      \* length of one check_unread_emails result
MaxCycles == 3      \* fetch cycles observed
MaxTime   == 1      \* instants 0..MaxTime
MaxDur    == 1      \* durations 0..MaxDur (minutes)
DayLen    == 2      \* instants per calendar day
MaxAttendees == 2   \* length of the attendee list in an extraction answer
SlotHorizon == 5    \* instants 0..SlotHorizon of the slot search on its own
MaxBusy   == 2      \* busy intervals the calendar returns to that search

MsgIds    == 1..MaxMsgs
Time      == 0..MaxTime
Durations == 0..MaxDur
Hours     == 0..(DayLen - 1)
Days      == 0..(MaxTime \div DayLen)

\* ---------------------------------------------------------------- config
\* shared["config"]: the authorized user and the calendar working hours.
AuthorizedUser == "Boss <Boss@Corp>"
WorkingHours   == <<0, 2>>

\* email.utils.getaddresses([a])[0][1].lower().strip() on the addresses used
Addresses == {"Boss <Boss@Corp>", "boss@corp", "eve@corp", "Eve@Corp"}
NormAddr(a) ==
    CASE a = "Boss <Boss@Corp>" -> "boss@corp"
      [] a = "boss@corp"        -> "boss@corp"
      [] a = "eve@corp"         -> "eve@corp"
      [] a = "Eve@Corp"         -> "eve@corp"
      [] OTHER                  -> a

\* ---------------------------------------------------------------- values
None      == "None"                 \* Python None as an action / successor
NoRequest == [absent |-> TRUE]      \* key "request" not in the message dict
NoDraft   == [absent |-> TRUE]      \* key "draft_email" not in the message dict
NoEvent   == [absent |-> TRUE]      \* key "event" not in the request dict
NoSlot    == <<>>                   \* chosen_slot is None
NoRes     == [none |-> TRUE]        \* no prep_res / exec_res held

Range(s) == {s[i] : i \in DOMAIN s}

\* the emails check_unread_emails can return (cc / bcc already parsed lists)
Emails ==
    { [message_id |-> m, sender |-> v[1], cc |-> v[2], bcc |-> <<>>] :
        m \in MsgIds,
        v \in { <<"Boss <Boss@Corp>", <<>>>>, <<"eve@corp", <<>>>> } }

SeqsUpTo(S, n) == UNION { [1..k -> S] : k \in 0..n }

\* ---------------------------------------------------------------- wiring
WalkNodes == { "email_analyzer", "range_extractor", "availability_checker",
               "action_decider", "meeting_scheduler", "schedule_confirmation",
               "time_proposal", "no_slots", "email_sender" }
FlowNodes == { "email_fetcher", "email_analysis" }
Nodes     == WalkNodes \cup FlowNodes

\* node.successors after the module body of flow.py has run
successors ==
    [ email_fetcher         |-> [monitor |-> "email_fetcher",
                                 analyze_batch |-> "email_analysis"],
      email_analysis        |-> [default |-> "email_fetcher"],
      email_analyzer        |-> [extract_availability_range |-> "range_extractor",
                                 end |-> None],
      range_extractor       |-> [check_availability |-> "availability_checker"],
      availability_checker  |-> [decide_next_action |-> "action_decider"],
      action_decider        |-> [schedule |-> "meeting_scheduler",
                                 ask_time |-> "time_proposal"],
      meeting_scheduler     |-> [send_confirmation |-> "schedule_confirmation"],
      schedule_confirmation |-> [send_email |-> "email_sender"],
      time_proposal         |-> [send_email |-> "email_sender"],
      no_slots              |-> << >>,
      email_sender          |-> [end |-> None] ]

\* the action names each node's post can return
PostActions ==
    [ email_fetcher         |-> {"monitor", "analyze_batch"},
      email_analysis        |-> {"default"},
      email_analyzer        |-> {"extract_availability_range", "end"},
      range_extractor       |-> {"check_availability"},
      availability_checker  |-> {"decide_next_action"},
      action_decider        |-> {"schedule", "ask_time"},
      meeting_scheduler     |-> {"send_confirmation"},
      schedule_confirmation |-> {"send_email"},
      time_proposal         |-> {"send_email"},
      no_slots              |-> {"send_email"},
      email_sender          |-> {"end"} ]

\* a lookup that runs the current node again when the successor is None
get_next_nodeAgain(curr, action) ==
    LET a == IF action = None THEN "default" ELSE action
    IN  IF a \in DOMAIN successors[curr] /\ successors[curr][a] # None
        THEN successors[curr][a]
        ELSE curr

\* Flow.get_next_node: successors.get(action or "default")
get_next_node(curr, action) ==
    LET a == IF action = None THEN "default" ELSE action
    IN  IF a \in DOMAIN successors[curr] THEN successors[curr][a] ELSE None

\* ------------------------------------------------- the ordered workspace
\* shared["pending_emails"] is a dict in insertion order: a sequence of
\* message entries with pairwise distinct message_id.
Keys(pe)      == [i \in 1..Len(pe) |-> pe[i].message_id]
KeySet(pe)    == {pe[i].message_id : i \in 1..Len(pe)}
Has(pe, k)    == k \in KeySet(pe)
Entry(pe, k)  == pe[CHOOSE i \in 1..Len(pe) : pe[i].message_id = k]
Put(pe, k, v) ==
    IF Has(pe, k)
    THEN [i \in 1..Len(pe) |-> IF pe[i].message_id = k THEN v ELSE pe[i]]
    ELSE Append(pe, v)
Del(pe, k)    == SelectSeq(pe, LAMBDA e : e.message_id # k)

\* a dict build that keeps one entry per list element, repeated ids included
DictOfKeepAll(msgs) ==
    [i \in 1..Len(msgs) |->
        [message_id |-> msgs[i].message_id, sender |-> msgs[i].sender,
         cc |-> msgs[i].cc, bcc |-> msgs[i].bcc,
         request |-> NoRequest, draft_email |-> NoDraft]]

\* {msg["message_id"]: msg for msg in exec_res}
RECURSIVE DictOf(_)
DictOf(msgs) ==
    IF msgs = <<>> THEN <<>>
    ELSE LET n == Len(msgs)
             m == msgs[n]
         IN  Put(DictOf(SubSeq(msgs, 1, n - 1)), m.message_id,
                 [message_id |-> m.message_id, sender |-> m.sender,
                  cc |-> m.cc, bcc |-> m.bcc,
                  request |-> NoRequest, draft_email |-> NoDraft])

\* the authorized-user filter of EmailFetcherNode.exec
Involves(e) ==
    LET authorized_email == NormAddr(AuthorizedUser)
    IN  \/ NormAddr(e.sender) = authorized_email
        \/ authorized_email \in Range(e.cc)
        \/ authorized_email \in Range(e.bcc)

\* a fetcher without the filter
authorized_emailsAll(emails) == emails

authorized_emails(emails) == SelectSeq(emails, Involves)

\* ------------------------------------------------------- slot resolution
DayOf(t)  == t \div DayLen
HourOf(t) == t % DayLen
BusyIntervals == { iv \in (Time \X Time) : iv[1] < iv[2] }

FreeUnit(t, start_time, end_time, working_hours, busy) ==
    /\ start_time <= t /\ t < end_time
    /\ working_hours[1] <= HourOf(t) /\ HourOf(t) < working_hours[2]
    /\ ~ \E iv \in busy : iv[1] <= t /\ t < iv[2]

RECURSIVE SortSlots(_)
SortSlots(S) ==
    IF S = {} THEN <<>>
    ELSE LET m == CHOOSE x \in S : \A y \in S : x[1] <= y[1]
         IN  <<m>> \o SortSlots(S \ {m})

\* free sub-intervals of each day's working interval inside the window,
\* busy intervals subtracted, short ones discarded, in chronological order
check_availability(start_time, end_time, min_duration, working_hours, busy) ==
    LET free(t)  == FreeUnit(t, start_time, end_time, working_hours, busy)
        runs     == { <<a, b>> \in ((start_time..end_time) \X
                                      (start_time..end_time)) :
                        /\ a < b
                        /\ \A t \in a..(b - 1) : free(t) /\ DayOf(t) = DayOf(a)
                        /\ ~ (free(a - 1) /\ DayOf(a - 1) = DayOf(a))
                        /\ ~ (free(b) /\ DayOf(b) = DayOf(a)) }
    IN  SortSlots({ r \in runs : r[2] - r[1] >= min_duration })

\* ----------------------------------------------------------------- state
VARIABLES
    pending_emails,   \* shared["pending_emails"]
    node,             \* the node the flow is running
    stage,            \* "prep", "exec" or "post" of that node
    prep_res,         \* what prep returned to exec / post
    exec_res,         \* what exec returned to post
    email_id,         \* params["email_id"] bound to the current walk (0: none)
    items,            \* the batch flow's prep result: the snapshot of keys
    idx,              \* position of the current walk in items
    crashed,          \* an exception left scheduler_flow.run
    sleeps,           \* number of time.sleep(30) calls
    empty_fetches,    \* fetcher exec results with no admitted message
    admitted_fetches, \* fetcher exec results with admitted messages
    dispatches,       \* runs of the batch flow
    admitted,         \* message ids of the last fetcher exec result
    visited,          \* nodes run by the current walk, in order
    calls,            \* collaborator calls made by the current walk
    outcome,          \* per snapshot item: "none", "walking", "done", "failed"
    walks,            \* per message id: walks started for it in this batch
    today,            \* datetime.now() read by the current walk's extractor
    unread            \* what check_unread_emails returned to the fetch whose
                      \* post is due

vars == << pending_emails, node, stage, prep_res, exec_res, email_id, items,
           idx, crashed, sleeps, empty_fetches, admitted_fetches, dispatches,
           admitted, visited, calls, outcome, walks, today, unread >>

flowVars == << node, stage, prep_res, exec_res >>
walkVars == << email_id, items, idx >>
pollVars == << sleeps, empty_fetches, admitted_fetches, dispatches, admitted,
              unread >>

NoCalls == [call_llm |-> 0, check_availability |-> 0,
            schedule_meeting |-> 0, send_email |-> 0]

Init ==
    /\ pending_emails = <<>>
    /\ node = "email_fetcher"
    /\ stage = "prep"
    /\ prep_res = NoRes
    /\ exec_res = NoRes
    /\ email_id = 0
    /\ items = <<>>
    /\ idx = 0
    /\ crashed = FALSE
    /\ sleeps = 0
    /\ empty_fetches = 0
    /\ admitted_fetches = 0
    /\ dispatches = 0
    /\ admitted = {}
    /\ visited = <<>>
    /\ calls = NoCalls
    /\ outcome = [k \in MsgIds |-> "none"]
    /\ walks = [k \in MsgIds |-> 0]
    /\ today = 0
    /\ unread = <<>>

\* ------------------------------------------------------- orchestration
\* an exception leaves the stage: Node._exec re-raises it (max_retries = 1),
\* Flow._orch and BatchFlow._run do not catch it
Raise(c) ==
    /\ crashed' = TRUE
    /\ calls' = c
    /\ outcome' = IF node \in WalkNodes
                  THEN [outcome EXCEPT ![email_id] = "failed"]
                  ELSE outcome
    /\ UNCHANGED << pending_emails, flowVars, walkVars, pollVars, visited,
                    walks, today >>

\* BatchFlow._run: self._orch(shared, {**self.params, **bp}) for item i
StartWalk(its, i, oc, w) ==
    /\ idx' = i
    /\ email_id' = its[i]
    /\ node' = "email_analyzer"
    /\ stage' = "prep"
    /\ visited' = << "email_analyzer" >>
    /\ calls' = NoCalls
    /\ outcome' = [oc EXCEPT ![its[i]] = "walking"]
    /\ walks' = [w EXCEPT ![its[i]] = @ + 1]
    /\ today' = 0

\* a batch that reads the keys of the map again after every walk
ProceedLive(a) ==
    LET nxt == get_next_node(node, a)
        live == Keys(pending_emails')
    IN  /\ prep_res' = NoRes
        /\ exec_res' = NoRes
        /\ IF nxt # None
           THEN /\ node' = nxt
                /\ stage' = "prep"
                /\ visited' = IF node \in WalkNodes THEN Append(visited, nxt)
                                                   ELSE visited
                /\ UNCHANGED << email_id, idx, calls, outcome, walks, today >>
           ELSE IF idx < Len(live)
                THEN StartWalk(live, idx + 1,
                               [outcome EXCEPT ![email_id] = "done"], walks)
                ELSE /\ node' = "email_analysis"
                     /\ stage' = "post"
                     /\ outcome' = [outcome EXCEPT ![email_id] = "done"]
                     /\ UNCHANGED << email_id, idx, calls, visited, walks,
                                     today >>

\* Flow._orch after curr._run returned action a: move to the successor, or
\* end this walk and let BatchFlow._run take the next item
Proceed(a) ==
    LET nxt == get_next_node(node, a)
    IN  /\ prep_res' = NoRes
        /\ exec_res' = NoRes
        /\ IF nxt # None
           THEN /\ node' = nxt
                /\ stage' = "prep"
                /\ visited' = IF node \in WalkNodes THEN Append(visited, nxt)
                                                   ELSE visited
                /\ UNCHANGED << email_id, idx, calls, outcome, walks, today >>
           ELSE IF idx < Len(items)
                THEN StartWalk(items, idx + 1,
                               [outcome EXCEPT ![email_id] = "done"], walks)
                ELSE /\ node' = "email_analysis"
                     /\ stage' = "post"
                     /\ outcome' = [outcome EXCEPT ![email_id] = "done"]
                     /\ UNCHANGED << email_id, idx, calls, visited, walks,
                                     today >>

At(n, st) == ~crashed /\ node = n /\ stage = st

\* ------------------------------------------------------ EmailFetcherNode
EmailFetcherPrep ==
    /\ At("email_fetcher", "prep")
    /\ empty_fetches + admitted_fetches < MaxCycles
    /\ prep_res' = [authorized_user |-> AuthorizedUser]
    /\ stage' = "exec"
    /\ UNCHANGED << pending_emails, node, exec_res, walkVars, crashed,
                    pollVars, visited, calls, outcome, walks, today >>

EmailFetcherExec ==
    /\ At("email_fetcher", "exec")
    /\ \/ Raise(calls)                      \* check_unread_emails raises
       \/ \E emails \in SeqsUpTo(Emails, MaxEmails) :
            LET res == authorized_emails(emails)
            IN  /\ exec_res' = res          \* None and [] are both falsy
                /\ stage' = "post"
                /\ empty_fetches' = empty_fetches + (IF res = <<>> THEN 1 ELSE 0)
                /\ admitted_fetches' =
                       admitted_fetches + (IF res = <<>> THEN 0 ELSE 1)
                /\ admitted' = {res[i].message_id : i \in 1..Len(res)}
                /\ unread' = emails
                /\ UNCHANGED << pending_emails, node, prep_res, walkVars,
                                crashed, sleeps, dispatches, visited, calls,
                                outcome, walks, today >>

\* a post that adds the new emails to the map it finds
EmailFetcherPostMerge ==
    /\ At("email_fetcher", "post")
    /\ IF exec_res = <<>>
       THEN /\ sleeps' = sleeps + 1
            /\ Proceed("monitor")
            /\ UNCHANGED pending_emails
       ELSE /\ pending_emails' =
                   SelectSeq(pending_emails,
                             LAMBDA e : ~Has(DictOf(exec_res), e.message_id))
                       \o DictOf(exec_res)
            /\ Proceed("analyze_batch")
            /\ UNCHANGED sleeps
    /\ unread' = <<>>
    /\ UNCHANGED << items, crashed, empty_fetches, admitted_fetches,
                    dispatches, admitted >>

EmailFetcherPost ==
    /\ At("email_fetcher", "post")
    /\ IF exec_res = <<>>
       THEN /\ sleeps' = sleeps + 1         \* time.sleep(30)
            /\ Proceed("monitor")
            /\ UNCHANGED pending_emails
       ELSE /\ pending_emails' = DictOf(exec_res)
            /\ Proceed("analyze_batch")
            /\ UNCHANGED sleeps
    /\ unread' = <<>>
    /\ UNCHANGED << items, crashed, empty_fetches, admitted_fetches,
                    dispatches, admitted >>

\* ------------------------------------------------ EmailAnalysisBatchFlow
EmailAnalysisPrep ==
    /\ At("email_analysis", "prep")
    /\ LET pr == Keys(pending_emails)
       IN  /\ items' = pr
           /\ dispatches' = dispatches + 1
           /\ IF pr # <<>>
              THEN StartWalk(pr, 1, [k \in MsgIds |-> "none"],
                             [k \in MsgIds |-> 0])
              ELSE /\ stage' = "post"
                   /\ outcome' = [k \in MsgIds |-> "none"]
                   /\ walks' = [k \in MsgIds |-> 0]
                   /\ UNCHANGED << node, idx, email_id, visited, calls,
                                   today >>
    /\ UNCHANGED << pending_emails, prep_res, exec_res, crashed, sleeps,
                    empty_fetches, admitted_fetches, admitted, unread >>

\* a batch flow whose end is the end of the run
EmailAnalysisPostStops ==
    /\ At("email_analysis", "post")
    /\ stage' = "done"
    /\ UNCHANGED << pending_emails, node, prep_res, exec_res, walkVars,
                    crashed, pollVars, visited, calls, outcome, walks, today >>

\* BaseNode.post returns None, which the outer flow reads as "default"
EmailAnalysisPost ==
    /\ At("email_analysis", "post")
    /\ Proceed(None)
    /\ UNCHANGED << pending_emails, items, crashed, pollVars >>

\* ------------------------------------------------------- stage helpers
Call(f) == [calls EXCEPT ![f] = @ + 1]

\* prep returned pr: Node._run goes on to exec
ToExec(pr) ==
    /\ prep_res' = pr
    /\ stage' = "exec"
    /\ UNCHANGED << pending_emails, node, exec_res, walkVars, crashed,
                    pollVars, visited, calls, outcome, walks, today >>

\* exec returned er after the collaborator calls counted in c
ToPost(er, c) ==
    /\ exec_res' = er
    /\ stage' = "post"
    /\ calls' = c
    /\ UNCHANGED << pending_emails, node, prep_res, walkVars, crashed,
                    pollVars, visited, outcome, walks, today >>

\* post stored pe and returned action a
Finish(pe, a) ==
    /\ pending_emails' = pe
    /\ Proceed(a)
    /\ UNCHANGED << items, crashed, pollVars >>

Msg        == Entry(pending_emails, email_id)
HasMsg     == Has(pending_emails, email_id)
HasRequest == HasMsg /\ Msg.request # NoRequest
\* a store that writes the request into every entry of the map
WithRequestEvery(req) ==
    [i \in 1..Len(pending_emails) |->
        [pending_emails[i] EXCEPT !.request = req]]
WithRequest(req) ==
    Put(pending_emails, email_id, [Msg EXCEPT !.request = req])
WithDraft(d) ==
    Put(pending_emails, email_id, [Msg EXCEPT !.draft_email = d])

\* ----------------------------------------------- EmailIntentAnalyzerNode
EmailIntentAnalyzerPrep ==
    /\ At("email_analyzer", "prep")
    /\ IF HasMsg
       THEN ToExec([email_id |-> email_id])
       ELSE Raise(calls)                            \* KeyError

EmailIntentAnalyzerExec ==
    /\ At("email_analyzer", "exec")
    /\ \/ Raise(Call("call_llm"))                   \* call or yaml parse fails
       \/ \E b \in BOOLEAN :
            ToPost([is_scheduling |-> b], Call("call_llm"))

\* an analyzer post that ends the walk without the del
EmailIntentAnalyzerPostKeep ==
    /\ At("email_analyzer", "post")
    /\ IF exec_res.is_scheduling
       THEN Finish(pending_emails, "extract_availability_range")
       ELSE Finish(pending_emails, "end")

EmailIntentAnalyzerPost ==
    /\ At("email_analyzer", "post")
    /\ IF exec_res.is_scheduling
       THEN Finish(pending_emails, "extract_availability_range")
       ELSE Finish(Del(pending_emails, email_id), "end")

\* ---------------------------------------- AvailabilityRangeExtractorNode
\* attendees after the loop over [sender] + cc_list + bcc_list
RECURSIVE AddParticipants(_, _)
AddParticipants(attendees, addrs) ==
    IF addrs = <<>> THEN attendees
    ELSE LET email_addr == NormAddr(Head(addrs))
         IN  AddParticipants(IF email_addr \in Range(attendees)
                             THEN attendees
                             ELSE Append(attendees, email_addr),
                             Tail(addrs))

\* what the extraction answer can be once the yaml is loaded; an answer
\* without an attendees key gets [] from setdefault
ExtractResults ==
    [duration : Durations, is_int : BOOLEAN, start : Time, end : Time,
     attendees : {<<>>}]

\* the assertions without the one on the past (line 220)
ExtractValidAnyStart(r, now) ==
    /\ r.is_int
    /\ r.start < r.end

\* the assertions of lines 200-220 on an answer r read at time now
ExtractValid(r, now) ==
    /\ r.is_int
    /\ r.start < r.end
    /\ r.start >= now

AvailabilityRangeExtractorPrep ==
    /\ At("range_extractor", "prep")
    /\ IF HasMsg
       THEN ToExec([sender |-> Msg.sender, cc |-> Msg.cc, bcc |-> Msg.bcc])
       ELSE Raise(calls)

\* exec over the answers R the collaborator can give
ExtractorExec(R) ==
    /\ At("range_extractor", "exec")
    /\ \/ Raise(Call("call_llm"))
       \/ \E r \in R, now \in Time :
            IF ExtractValid(r, now)
            THEN /\ exec_res' =
                     [duration |-> r.duration,
                      timeframe |-> [start |-> r.start, end |-> r.end],
                      attendees |->
                          AddParticipants(r.attendees, <<prep_res.sender>>
                              \o prep_res.cc \o prep_res.bcc)]
                 /\ stage' = "post"
                 /\ calls' = Call("call_llm")
                 /\ today' = now
                 /\ UNCHANGED << pending_emails, node, prep_res, walkVars,
                                 crashed, pollVars, visited, outcome, walks >>
            ELSE Raise(Call("call_llm"))            \* AssertionError

AvailabilityRangeExtractorExec == ExtractorExec(ExtractResults)

\* answers that carry the attendees list the prompt asks for
AttendeeLists == SeqsUpTo({"boss@corp", "eve@corp", "Eve@Corp"}, MaxAttendees)
ExtractResultsWithAttendees ==
    [duration : Durations, is_int : BOOLEAN, start : Time, end : Time,
     attendees : AttendeeLists]
AvailabilityRangeExtractorExecAttendees ==
    ExtractorExec(ExtractResultsWithAttendees)

\* a request that is created as already scheduled
AvailabilityRangeExtractorPostScheduled ==
    /\ At("range_extractor", "post")
    /\ Finish(WithRequest([status |-> "scheduled", meeting |-> exec_res,
                           available_slots |-> <<>>, chosen_slot |-> NoSlot,
                           event |-> NoEvent]),
              "check_availability")

AvailabilityRangeExtractorPost ==
    /\ At("range_extractor", "post")
    /\ Finish(WithRequest([status |-> "pending", meeting |-> exec_res,
                           available_slots |-> <<>>, chosen_slot |-> NoSlot,
                           event |-> NoEvent]),
              "check_availability")

\* ------------------------------------------------ AvailabilityCheckerNode
AvailabilityCheckerPrep ==
    /\ At("availability_checker", "prep")
    /\ IF HasRequest
       THEN ToExec([start_time |-> Msg.request.meeting.timeframe.start,
                    end_time |-> Msg.request.meeting.timeframe.end,
                    duration |-> Msg.request.meeting.duration,
                    working_hours |-> WorkingHours])
       ELSE Raise(calls)

\* an exec that leaves min_duration out of the call
CheckerExecNoMinimum(B) ==
    /\ At("availability_checker", "exec")
    /\ \/ Raise(Call("check_availability"))
       \/ \E busy \in B :
            ToPost([slots |-> check_availability(prep_res.start_time,
                                 prep_res.end_time, 0,
                                 prep_res.working_hours, busy)],
                   Call("check_availability"))

\* exec over the busy sets B the calendar can hold
CheckerExec(B) ==
    /\ At("availability_checker", "exec")
    /\ \/ Raise(Call("check_availability"))
       \/ \E busy \in B :
            ToPost([slots |-> check_availability(prep_res.start_time,
                                 prep_res.end_time, prep_res.duration,
                                 prep_res.working_hours, busy)],
                   Call("check_availability"))

AvailabilityCheckerExec == CheckerExec(SUBSET BusyIntervals)

AvailabilityCheckerPost ==
    /\ At("availability_checker", "post")
    /\ Finish(WithRequest([Msg.request EXCEPT
                              !.available_slots = exec_res.slots]),
              "decide_next_action")

\* ------------------------------------------------------ ActionDeciderNode
\* the answer's chosen_slot text "YYYY-MM-DD HH:MM ET to HH:MM ET": one date
\* and two times of day
SlotTexts == [date : Days, from : Hours, to : Hours]
NullText  == [null |-> TRUE]
DeciderAnswers ==
    [action : {"schedule", "ask_time"}, chosen_slot : SlotTexts \cup {NullText}]

\* lines 333-338: both ends are parsed on the date of the start
ParseSlot(txt) == << txt.date * DayLen + txt.from, txt.date * DayLen + txt.to >>

DeciderResult(ans) ==
    IF ans.action = "schedule" /\ ans.chosen_slot # NullText
    THEN [action |-> ans.action, chosen_slot |-> ParseSlot(ans.chosen_slot)]
    ELSE [action |-> ans.action,
          chosen_slot |-> IF ans.chosen_slot = NullText THEN NoSlot
                                                       ELSE ans.chosen_slot]

ActionDeciderPrep ==
    /\ At("action_decider", "prep")
    /\ IF HasRequest
       THEN ToExec([available_slots |-> Msg.request.available_slots,
                    meeting |-> Msg.request.meeting])
       ELSE Raise(calls)

ActionDeciderExec ==
    /\ At("action_decider", "exec")
    /\ \/ Raise(Call("call_llm"))
       \/ \E ans \in DeciderAnswers :
            ToPost(DeciderResult(ans), Call("call_llm"))

ActionDeciderPost ==
    /\ At("action_decider", "post")
    /\ IF exec_res.action = "schedule"
       THEN Finish(WithRequest([Msg.request EXCEPT
                                   !.chosen_slot = exec_res.chosen_slot]),
                   "schedule")
       ELSE Finish(pending_emails, "ask_time")

\* --------------------------------------------------- MeetingSchedulerNode
MeetingSchedulerPrep ==
    /\ At("meeting_scheduler", "prep")
    /\ IF HasRequest
       THEN ToExec([meeting |-> Msg.request.meeting,
                    chosen_slot |-> Msg.request.chosen_slot])
       ELSE Raise(calls)

\* an exec that marks the request scheduled itself once the calendar answered
MeetingSchedulerExecMarks ==
    /\ At("meeting_scheduler", "exec")
    /\ IF prep_res.chosen_slot = NoSlot
       THEN Raise(calls)
       ELSE \/ Raise(Call("schedule_meeting"))
            \/ /\ exec_res' = [start |-> prep_res.chosen_slot[1],
                                end |-> prep_res.chosen_slot[2]]
               /\ stage' = "post"
               /\ calls' = Call("schedule_meeting")
               /\ pending_emails' =
                      WithRequest([Msg.request EXCEPT !.status = "scheduled"])
               /\ UNCHANGED << node, prep_res, walkVars, crashed, pollVars,
                               visited, outcome, walks, today >>

MeetingSchedulerExec ==
    /\ At("meeting_scheduler", "exec")
    /\ IF prep_res.chosen_slot = NoSlot
       THEN Raise(calls)                    \* unpacking None: TypeError
       ELSE \/ Raise(Call("schedule_meeting"))
            \/ ToPost([start |-> prep_res.chosen_slot[1],
                       end |-> prep_res.chosen_slot[2]],
                      Call("schedule_meeting"))

\* a scheduler post that stores the event but leaves the status alone
MeetingSchedulerPostNoStatus ==
    /\ At("meeting_scheduler", "post")
    /\ Finish(WithRequest([Msg.request EXCEPT !.event = exec_res]),
              "send_confirmation")

MeetingSchedulerPost ==
    /\ At("meeting_scheduler", "post")
    /\ Finish(WithRequest([Msg.request EXCEPT !.status = "scheduled",
                                              !.event = exec_res]),
              "send_confirmation")

\* ------------------------------------------ ScheduleConfirmationEmailNode
ScheduleConfirmationEmailPrep ==
    /\ At("schedule_confirmation", "prep")
    /\ IF HasRequest /\ Msg.request.event # NoEvent
       THEN ToExec([meeting |-> Msg.request.meeting,
                    event |-> Msg.request.event])
       ELSE Raise(calls)

ScheduleConfirmationEmailExec ==
    /\ At("schedule_confirmation", "exec")
    /\ \/ Raise(Call("call_llm"))
       \/ ToPost([body |-> "confirmation"], Call("call_llm"))

\* a confirmation post that returns its action without storing the draft
ScheduleConfirmationEmailPostNoDraft ==
    /\ At("schedule_confirmation", "post")
    /\ Finish(pending_emails, "send_email")

ScheduleConfirmationEmailPost ==
    /\ At("schedule_confirmation", "post")
    /\ Finish(WithDraft([body |-> exec_res.body]), "send_email")

\* ------------------------------------------------------ ProposalEmailNode
ProposalEmailPrep ==
    /\ At("time_proposal", "prep")
    /\ IF HasRequest
       THEN ToExec([slots |-> Msg.request.available_slots,
                    meeting |-> Msg.request.meeting])
       ELSE Raise(calls)

ProposalEmailExec ==
    /\ At("time_proposal", "exec")
    /\ \/ Raise(Call("call_llm"))
       \/ ToPost([body |-> "proposal"], Call("call_llm"))

\* a proposal whose "send_email" is wired back to the action decider
ProposalEmailPostAgain ==
    /\ At("time_proposal", "post")
    /\ pending_emails' = WithDraft([body |-> exec_res.body])
    /\ node' = "action_decider"
    /\ stage' = "prep"
    /\ visited' = Append(visited, "action_decider")
    /\ prep_res' = NoRes
    /\ exec_res' = NoRes
    /\ UNCHANGED << walkVars, crashed, pollVars, calls, outcome, walks,
                    today >>

ProposalEmailPost ==
    /\ At("time_proposal", "post")
    /\ Finish(WithDraft([body |-> exec_res.body]), "send_email")

\* -------------------------------------------------------- EmailSenderNode
EmailSenderPrep ==
    /\ At("email_sender", "prep")
    /\ IF HasRequest /\ Msg.draft_email # NoDraft
       THEN ToExec([draft |-> Msg.draft_email,
                    meeting |-> Msg.request.meeting])
       ELSE Raise(calls)

EmailSenderExec ==
    /\ At("email_sender", "exec")
    /\ \/ Raise(Call("send_email"))
       \/ ToPost([sent |-> TRUE], Call("send_email"))

\* a sender post that drops the message once the reply is out
EmailSenderPostDel ==
    /\ At("email_sender", "post")
    /\ Finish(Del(pending_emails, email_id), "end")

EmailSenderPost ==
    /\ At("email_sender", "post")
    /\ Finish(pending_emails, "end")

\* ------------------------------------------------------------------ spec
Next ==
    \/ EmailFetcherPrep
    \/ EmailFetcherExec
    \/ EmailFetcherPost
    \/ EmailAnalysisPrep
    \/ EmailAnalysisPost
    \/ EmailIntentAnalyzerPrep
    \/ EmailIntentAnalyzerExec
    \/ EmailIntentAnalyzerPost
    \/ AvailabilityRangeExtractorPrep
    \/ AvailabilityRangeExtractorExec
    \/ AvailabilityRangeExtractorPost
    \/ AvailabilityCheckerPrep
    \/ AvailabilityCheckerExec
    \/ AvailabilityCheckerPost
    \/ ActionDeciderPrep
    \/ ActionDeciderExec
    \/ ActionDeciderPost
    \/ MeetingSchedulerPrep
    \/ MeetingSchedulerExec
    \/ MeetingSchedulerPost
    \/ ScheduleConfirmationEmailPrep
    \/ ScheduleConfirmationEmailExec
    \/ ScheduleConfirmationEmailPost
    \/ ProposalEmailPrep
    \/ ProposalEmailExec
    \/ ProposalEmailPost
    \/ EmailSenderPrep
    \/ EmailSenderExec
    \/ EmailSenderPost

Spec == Init /\ [][Next]_vars

\* scheduler_flow.run is one thread that goes on to its next stage as long
\* as there is one
FairSpec == Spec /\ WF_vars(Next)

\* ------------------------------------------- the extractor on its own
\* one admitted message with cc and bcc recipients, its walk about to enter
\* the extractor, and answers that carry an attendees list
CcLists == SeqsUpTo({"boss@corp", "eve@corp"}, 1)
EmailsWithCopies ==
    { e \in [message_id : MsgIds, sender : {"Boss <Boss@Corp>", "Eve@Corp"},
             cc : CcLists, bcc : CcLists] : Involves(e) }

InitAttendees ==
    \E e \in EmailsWithCopies :
        /\ pending_emails = DictOf(<< e >>)
        /\ node = "range_extractor"
        /\ stage = "prep"
        /\ prep_res = NoRes
        /\ exec_res = NoRes
        /\ email_id = e.message_id
        /\ items = << e.message_id >>
        /\ idx = 1
        /\ crashed = FALSE
        /\ sleeps = 0
        /\ empty_fetches = 0
        /\ admitted_fetches = 1
        /\ dispatches = 1
        /\ admitted = {e.message_id}
        /\ visited = << "email_analyzer", "range_extractor" >>
        /\ calls = [NoCalls EXCEPT !.call_llm = 1]
        /\ outcome = [k \in MsgIds |->
                         IF k = e.message_id THEN "walking" ELSE "none"]
        /\ walks = [k \in MsgIds |-> IF k = e.message_id THEN 1 ELSE 0]
        /\ today = 0
        /\ unread = <<>>

NextAttendees ==
    \/ AvailabilityRangeExtractorPrep
    \/ AvailabilityRangeExtractorExecAttendees
    \/ AvailabilityRangeExtractorPost

SpecAttendees == InitAttendees /\ [][NextAttendees]_vars

\* --------------------------------------------- the slot search on its own
\* a walk whose checker has run prep on a request with a window of several
\* days, a duration and one of the working-hours pairs, and a calendar that
\* holds up to MaxBusy busy intervals
SlotTime == 0..SlotHorizon
SlotWorkingHours == { <<0, DayLen>>, <<0, 1>>, <<1, DayLen>> }
SlotBusySets ==
    { b \in SUBSET { iv \in (SlotTime \X SlotTime) : iv[1] < iv[2] } :
        Cardinality(b) <= MaxBusy }
SlotSearches ==
    { p \in [start_time : SlotTime, end_time : SlotTime,
             duration : 0..(MaxDur + 1), working_hours : SlotWorkingHours] :
        p.start_time < p.end_time }

InitSlots ==
    \E k \in MsgIds, p \in SlotSearches :
        /\ pending_emails =
               << [message_id |-> k, sender |-> AuthorizedUser,
                   cc |-> <<>>, bcc |-> <<>>,
                   request |->
                       [status |-> "pending",
                        meeting |->
                            [duration |-> p.duration,
                             timeframe |-> [start |-> p.start_time,
                                            end |-> p.end_time],
                             attendees |-> << NormAddr(AuthorizedUser) >>],
                        available_slots |-> <<>>, chosen_slot |-> NoSlot,
                        event |-> NoEvent],
                   draft_email |-> NoDraft] >>
        /\ node = "availability_checker"
        /\ stage = "exec"
        /\ prep_res = p
        /\ exec_res = NoRes
        /\ email_id = k
        /\ items = << k >>
        /\ idx = 1
        /\ crashed = FALSE
        /\ sleeps = 0
        /\ empty_fetches = 0
        /\ admitted_fetches = 1
        /\ dispatches = 1
        /\ admitted = {k}
        /\ visited = << "email_analyzer", "range_extractor",
                        "availability_checker" >>
        /\ calls = [NoCalls EXCEPT !.call_llm = 2]
        /\ outcome = [j \in MsgIds |-> IF j = k THEN "walking" ELSE "none"]
        /\ walks = [j \in MsgIds |-> IF j = k THEN 1 ELSE 0]
        /\ today = 0
        /\ unread = <<>>

AvailabilityCheckerExecSlots == CheckerExec(SlotBusySets)

NextSlots ==
    \/ AvailabilityCheckerExecSlots
    \/ AvailabilityCheckerPost

SpecSlots == InitSlots /\ [][NextSlots]_vars

\* ================================================================ claims
InBatch == node \in WalkNodes \/ (node = "email_analysis" /\ stage = "post")
Walked(k) == outcome[k] \in {"done", "failed"}

\* the fetcher's exec has returned and its post has not run yet
FetchAwaitingPost(empty) ==
    /\ node = "email_fetcher" /\ stage = "post"
    /\ (exec_res = <<>>) = empty
DispatchPending ==
    FetchAwaitingPost(FALSE) \/ (node = "email_analysis" /\ stage = "prep")

\* slot cs lies inside slot s
SlotWithin(cs, s) == s[1] <= cs[1] /\ cs[2] <= s[2]

\* the nodes from the entry node to the sender on the "schedule" branch
SchedulePath ==
    << "email_analyzer", "range_extractor", "availability_checker",
       "action_decider", "meeting_scheduler", "schedule_confirmation",
       "email_sender" >>

\* C1: a failure in one item's walk does not abort the other items' walks:
\* whenever the run has come to rest, every item of the snapshot has been
\* walked to a terminal action or recorded as failed.
C1_SiblingsStillWalked ==
    crashed => \A k \in Range(items) : Walked(k)

\* C2: a failure inside an item's walk never stops the outer polling loop:
\* the run never comes to rest inside a node of the batch sub-graph.
C2_WalkFailureKeepsPolling ==
    crashed => node \notin WalkNodes

\* C3: a failing mailbox fetch does not terminate the polling driver: the
\* run never comes to rest in the email fetcher, and the failed fetch is
\* followed by the same backoff wait as an empty one.
C3_FetchFailureRetried ==
    crashed => node # "email_fetcher"

\* C4: one backoff wait per fetch without admitted message, one batch
\* dispatch per fetch with admitted messages, and the batch has one item per
\* distinct admitted message id.
C4_OneWaitOrOneBatchPerFetch ==
    /\ empty_fetches = sleeps + (IF FetchAwaitingPost(TRUE) THEN 1 ELSE 0)
    /\ admitted_fetches = dispatches + (IF DispatchPending THEN 1 ELSE 0)
    /\ InBatch =>
          /\ Len(items) = Cardinality(admitted)
          /\ Range(items) = admitted
C4_TwoWaitsThenOneBatch ==
    /\ sleeps = 2 /\ empty_fetches = 2
    /\ dispatches = 1 /\ admitted_fetches = 1
    /\ Len(items) = 1
    /\ node = "email_analyzer"

\* C5: a chosen slot that is not contained in one of the request's free
\* slots is never written to the workspace as chosen_slot.
C5_ChosenSlotInFreeList ==
    \A i \in 1..Len(pending_emails) :
        LET req == pending_emails[i].request
        IN  (req # NoRequest /\ req.chosen_slot # NoSlot) =>
                \E s \in Range(req.available_slots) :
                    SlotWithin(req.chosen_slot, s)

\* C6: when the availability checker stored an empty available_slots list,
\* the walk goes from the checker to the no-slots notice and never invokes
\* schedule_meeting.
C6_NoSlotsNeverSchedules ==
    (node \in WalkNodes /\ HasRequest /\ Len(visited) >= 4
        /\ Msg.request.available_slots = <<>>) =>
            /\ visited[4] = "no_slots"
            /\ calls.schedule_meeting = 0

\* C7: no run starts unless every action a node's post can return is in
\* that node's transition table.
C7_EveryActionRegistered ==
    node \in Nodes =>
        \A n \in Nodes : \A a \in PostActions[n] : a \in DOMAIN successors[n]

\* C8: a message classified as non-scheduling ends its walk at the intent
\* analyzer: its key is removed, it never had a request, and the classifier
\* call is the only collaborator call of the walk.
C8_NonSchedulingEndsAtAnalyzer ==
    [][ (At("email_analyzer", "post") /\ ~exec_res.is_scheduling) =>
            /\ ~Has(pending_emails', email_id)
            /\ outcome'[email_id] = "done"
            /\ Msg.request = NoRequest
            /\ visited = << "email_analyzer" >>
            /\ calls = [NoCalls EXCEPT !.call_llm = 1] ]_vars
C8_NonSchedulingDropped ==
    /\ InBatch
    /\ \E k \in Range(items) : outcome[k] = "done" /\ ~Has(pending_emails, k)

\* C9: a walk whose decision is "schedule" and in which no stage fails runs
\* scheduler, confirmation draft, email sender in that order, calls
\* schedule_meeting once and send_email once, and ends with the request
\* scheduled and the created event stored.
C9_SchedulePathOnce ==
    [][ (At("email_sender", "post") /\ "meeting_scheduler" \in Range(visited)) =>
            /\ visited = SchedulePath
            /\ calls.schedule_meeting = 1
            /\ calls.send_email = 1
            /\ outcome'[email_id] = "done"
            /\ Has(pending_emails', email_id)
            /\ LET req == Entry(pending_emails', email_id).request
               IN  /\ req.status = "scheduled"
                   /\ req.event = [start |-> req.chosen_slot[1],
                                   end |-> req.chosen_slot[2]] ]_vars
C9_ScheduledWalkEnded ==
    /\ InBatch
    /\ \E k \in Range(items) :
          /\ outcome[k] = "done"
          /\ Has(pending_emails, k)
          /\ Entry(pending_emails, k).request.status = "scheduled"

\* C10 as stated: once a walk has reached a terminal action, the message's
\* id is no longer a key of pending_emails.
C10_TerminalWalkRemoved ==
    InBatch => \A k \in Range(items) :
                  outcome[k] = "done" => ~Has(pending_emails, k)

\* C10 amended: the walk that ends at the intent analyzer has removed the
\* message's entry; the walk that ends at the email sender leaves the entry
\* in pending_emails as it was.
C10_RemovedOnlyAtAnalyzer ==
    [][ /\ (At("email_analyzer", "post") /\ ~exec_res.is_scheduling) =>
               /\ outcome'[email_id] = "done"
               /\ ~Has(pending_emails', email_id)
        /\ At("email_sender", "post") =>
               /\ outcome'[email_id] = "done"
               /\ Has(pending_emails', email_id)
               /\ Entry(pending_emails', email_id) = Msg ]_vars
C10_BothEndingsInOneBatch ==
    /\ InBatch
    /\ \E k \in Range(items) :
          outcome[k] = "done" /\ Has(pending_emails, k)
              /\ Entry(pending_emails, k).draft_email # NoDraft
    /\ \E j \in Range(items) : outcome[j] = "done" /\ ~Has(pending_emails, j)

\* a sequence without a repeated element
NoDup(s) == \A i, j \in 1..Len(s) : s[i] = s[j] => i = j
BatchFinished == ~crashed /\ node = "email_analysis" /\ stage = "post"

\* C11: the items of a batch are the keys pending_emails has when the batch's
\* prep runs, each once; while the batch runs the items stay as they are,
\* whatever the walks delete from pending_emails; the walks started so far are
\* one for each of the first idx items and none for the others, and a batch
\* that has finished has walked every item exactly once.
C11_BatchWalksSnapshot ==
    [][ /\ At("email_analysis", "prep") =>
               /\ Range(items') = KeySet(pending_emails)
               /\ NoDup(items')
        /\ (InBatch /\ InBatch') => items' = items
        /\ InBatch' =>
               /\ \A i \in 1..Len(items') :
                     walks'[items'[i]] = IF i <= idx' THEN 1 ELSE 0
               /\ ~crashed' => email_id' = items'[idx']
        /\ BatchFinished' => \A k \in Range(items') : walks'[k] = 1 ]_vars
C11_WalkedAfterOwnKeyDeleted ==
    /\ BatchFinished
    /\ Len(items) = 2
    /\ ~Has(pending_emails, items[1])
    /\ walks[items[1]] = 1 /\ walks[items[2]] = 1

\* the walk of the current item ends with this step
WalkEnds ==
    \/ node' = "email_analysis" /\ stage' = "post" /\ idx' = idx
    \/ node' = "email_analyzer" /\ stage' = "prep" /\ idx' = idx + 1
           /\ visited' = << "email_analyzer" >>

\* C12: within one walk no node is invoked twice; a node's prep is followed by
\* its own exec and its exec by its own post, with no stage of another node in
\* between; after the post the walk goes to the successor registered for one
\* of the action names that post returns, or ends when there is none.
C12_StagesInOrderEachNodeOnce ==
    [][ (node \in WalkNodes /\ ~crashed /\ ~crashed') =>
            /\ stage = "prep" =>
                   node' = node /\ stage' = "exec" /\ visited' = visited
            /\ stage = "exec" =>
                   node' = node /\ stage' = "post" /\ visited' = visited
            /\ stage = "post" =>
                   \E a \in PostActions[node] :
                      LET nxt == get_next_node(node, a)
                      IN  IF nxt # None
                          THEN /\ node' = nxt /\ stage' = "prep"
                               /\ visited' = Append(visited, nxt)
                               /\ idx' = idx
                          ELSE WalkEnds
            /\ node' \in WalkNodes =>
                   NoDup(visited') /\ visited'[Len(visited')] = node' ]_vars
C12_LongestWalkDone ==
    /\ At("email_sender", "post")
    /\ Len(visited) = 7
    /\ NoDup(visited)

\* C13: every stage of a walk bound to the id email_id leaves the entry of
\* every other id in pending_emails as it was (present or not, and with the
\* same value), and email_id stays the same from node to node of the walk.
C13_WalkTouchesOnlyItsEntry ==
    [][ (node \in WalkNodes) =>
            /\ \A k \in (MsgIds \ {email_id}) :
                  /\ Has(pending_emails', k) = Has(pending_emails, k)
                  /\ Has(pending_emails, k) =>
                         Entry(pending_emails', k) = Entry(pending_emails, k)
            /\ (node' \in WalkNodes /\ idx' = idx) =>
                   email_id' = email_id ]_vars
C13_SecondWalkBesideFirstEntry ==
    /\ node \in WalkNodes /\ ~crashed
    /\ idx = 2
    /\ HasRequest
    /\ Msg.request.status = "pending"
    /\ Has(pending_emails, items[1])
    /\ Entry(pending_emails, items[1]).request # NoRequest
    /\ Entry(pending_emails, items[1]).request.status = "scheduled"

\* C14: a step taken from the prep or the exec stage of any node, the step
\* that raises included, leaves pending_emails as it was; only a step taken
\* from a post stage changes it. A run stopped by a failure keeps the
\* workspace the last post left.
C14_OnlyPostMutates ==
    [][ /\ stage \in {"prep", "exec"} => pending_emails' = pending_emails
        /\ pending_emails' # pending_emails => (stage = "post" /\ ~crashed)
        /\ crashed' => pending_emails' = pending_emails ]_vars
C14_FailedExecAfterStoredChoice ==
    /\ crashed
    /\ node = "meeting_scheduler" /\ stage = "exec"
    /\ calls.schedule_meeting = 1
    /\ HasRequest
    /\ Msg.request.chosen_slot # NoSlot
    /\ Msg.request.status = "pending"
    /\ Msg.request.event = NoEvent

\* C15: the decider's post returns "schedule" or "ask_time", and the stored
\* chosen_slot agrees with it: on the "schedule" branch the request's
\* chosen_slot is a (start, end) pair, on the "ask_time" branch it is still
\* null.
C15_ChosenSlotAgreesWithAction ==
    (node \in WalkNodes /\ HasRequest) =>
        /\ "meeting_scheduler" \in Range(visited) =>
               /\ Msg.request.chosen_slot # NoSlot
               /\ Len(Msg.request.chosen_slot) = 2
        /\ "time_proposal" \in Range(visited) =>
               Msg.request.chosen_slot = NoSlot

\* C16: in every state, a request's chosen_slot, when set, has start < end
\* and is at least as long as the request's meeting duration.
C16_ChosenSlotLongEnough ==
    \A i \in 1..Len(pending_emails) :
        LET req == pending_emails[i].request
        IN  (req # NoRequest /\ req.chosen_slot # NoSlot) =>
                /\ req.chosen_slot[1] < req.chosen_slot[2]
                /\ req.chosen_slot[2] - req.chosen_slot[1]
                       >= req.meeting.duration

\* the entry of the current walk holds the request the extractor created
RequestOfThisWalk ==
    node \in WalkNodes /\ HasRequest /\ "availability_checker" \in Range(visited)

\* C17: no answer whose timeframe has start >= end, or a start earlier than
\* the time the extractor read, passes the extractor's checks; every request
\* stored has a timeframe with start < end, and the request of the current
\* walk does not start before the time its extraction read.
C17_TimeframeValidated ==
    /\ \A r \in ExtractResults, now \in Time :
          (r.start >= r.end \/ r.start < now) => ~ExtractValid(r, now)
    /\ \A i \in 1..Len(pending_emails) :
          LET req == pending_emails[i].request
          IN  req # NoRequest =>
                  req.meeting.timeframe.start < req.meeting.timeframe.end
    /\ At("range_extractor", "post") =>
          /\ exec_res.timeframe.start < exec_res.timeframe.end
          /\ exec_res.timeframe.start >= today
    /\ RequestOfThisWalk => Msg.request.meeting.timeframe.start >= today
C17_RequestStartsAtCreation ==
    /\ RequestOfThisWalk
    /\ Msg.request.meeting.timeframe.start = today
    /\ Msg.request.meeting.timeframe.end > today

\* C18: every request stored has a meeting duration greater than zero.
C18_DurationPositive ==
    \A i \in 1..Len(pending_emails) :
        LET req == pending_emails[i].request
        IN  req # NoRequest => req.meeting.duration > 0

\* C19: the attendees list of every stored request has no address twice,
\* holds only addresses in their lowercase normalized form, and holds the
\* normalized address of the message's sender and of each cc and bcc
\* recipient.
C19_AttendeesNormalized ==
    \A i \in 1..Len(pending_emails) :
        LET m   == pending_emails[i]
            req == m.request
        IN  req # NoRequest =>
                /\ NoDup(req.meeting.attendees)
                /\ \A a \in Range(req.meeting.attendees) : NormAddr(a) = a
                /\ \A p \in {m.sender} \cup Range(m.cc) \cup Range(m.bcc) :
                      NormAddr(p) \in Range(req.meeting.attendees)

\* a slot list in ascending order of start, no two slots overlapping, every
\* slot non-empty and at least d long
SlotsWellFormed(slots, d) ==
    \A i \in 1..Len(slots) :
        /\ slots[i][1] < slots[i][2]
        /\ slots[i][2] - slots[i][1] >= d
        /\ i < Len(slots) =>
               /\ slots[i][1] < slots[i + 1][1]
               /\ slots[i][2] <= slots[i + 1][1]

\* C20: the slot list check_availability returns to the checker's exec, and
\* the list stored as available_slots, is in ascending order of start, has no
\* two slots that overlap, and has no slot shorter than the request's
\* duration; the empty list is one of the results.
C20_SlotsSortedDisjointLongEnough ==
    /\ At("availability_checker", "post") =>
           SlotsWellFormed(exec_res.slots, prep_res.duration)
    /\ \A i \in 1..Len(pending_emails) :
          LET req == pending_emails[i].request
          IN  req # NoRequest =>
                  SlotsWellFormed(req.available_slots, req.meeting.duration)
C20_SeveralSlotsStored ==
    /\ At("action_decider", "prep")
    /\ HasRequest
    /\ Msg.request.meeting.duration = 2
    /\ Len(Msg.request.available_slots) >= 2

FetcherAt(st) == ~crashed /\ node = "email_fetcher" /\ stage = st

\* C21: no action of the email fetcher or of the batch flow ends the run:
\* each has a registered successor, and unless a stage fails, every fetch
\* whose post is due and every finished batch is followed by the fetcher's
\* next prep, which goes on to the next fetch.
C21_FetchAlwaysFollows ==
    /\ [](\A n \in FlowNodes : \A a \in PostActions[n] :
              get_next_node(n, a) \in FlowNodes)
    /\ (FetcherAt("post") ~> (crashed \/ FetcherAt("prep")))
    /\ (BatchFinished ~> (crashed \/ FetcherAt("prep")))
    /\ ((FetcherAt("prep") /\ empty_fetches + admitted_fetches < MaxCycles)
            ~> FetcherAt("exec"))
C21_FetchAfterWaitAndBatch ==
    /\ FetcherAt("exec")
    /\ sleeps = 1
    /\ dispatches = 1
    /\ \A k \in Range(items) : outcome[k] = "done"

\* C22: a walk enters at most as many nodes as the longest path of the batch
\* sub-graph has, and every walk that has started comes to its end: it
\* reaches a terminal action, or a stage of it fails.
C22_WalkTerminates ==
    /\ [](node \in WalkNodes => Len(visited) <= Len(SchedulePath))
    /\ \A k \in MsgIds :
          (outcome[k] = "walking") ~> (outcome[k] \in {"done", "failed"})
C22_SecondWalkEndedAtSender ==
    /\ BatchFinished
    /\ Len(items) = 2
    /\ \A k \in Range(items) : outcome[k] = "done"
    /\ visited[Len(visited)] = "email_sender"
    /\ Len(visited) = Len(SchedulePath)

\* C23: every request's status is pending, scheduled or abandoned; a request
\* is pending when the checker first reads it; it is scheduled exactly when
\* it holds the event of the calendar call, made once by the scheduler of its
\* walk for a chosen slot the "schedule" branch stored; on the "ask_time"
\* branch schedule_meeting is not called and the request stays pending.
C23_StatusFollowsScheduling ==
    /\ \A i \in 1..Len(pending_emails) :
          LET req == pending_emails[i].request
          IN  req # NoRequest =>
                  /\ req.status \in {"pending", "scheduled", "abandoned"}
                  /\ (req.status = "scheduled") = (req.event # NoEvent)
                  /\ req.status = "scheduled" =>
                         /\ req.chosen_slot # NoSlot
                         /\ req.event = [start |-> req.chosen_slot[1],
                                         end |-> req.chosen_slot[2]]
    /\ (node \in WalkNodes /\ HasRequest) =>
          /\ node = "availability_checker" => Msg.request.status = "pending"
          /\ Msg.request.status = "scheduled" =>
                 /\ "meeting_scheduler" \in Range(visited)
                 /\ calls.schedule_meeting = 1
          /\ "time_proposal" \in Range(visited) =>
                 /\ calls.schedule_meeting = 0
                 /\ Msg.request.status = "pending"
C23_ScheduledBesideAskTime ==
    /\ At("email_sender", "post")
    /\ idx = 2
    /\ "time_proposal" \in Range(visited)
    /\ HasRequest
    /\ Msg.request.status = "pending"
    /\ Has(pending_emails, items[1])
    /\ Entry(pending_emails, items[1]).request # NoRequest
    /\ Entry(pending_emails, items[1]).request.status = "scheduled"

BatchAt(st) == ~crashed /\ node = "email_analysis" /\ stage = st

\* C25: when the fetcher's post has returned "analyze_batch", the keys of
\* pending_emails are the ids admitted by this fetch and every entry is as
\* fetched, with no request and no draft of an earlier batch; the batch that
\* follows walks ids admitted by this fetch only.
C25_DispatchReplacesMap ==
    /\ BatchAt("prep") =>
          /\ KeySet(pending_emails) = admitted
          /\ Len(pending_emails) = Cardinality(admitted)
          /\ \A i \in 1..Len(pending_emails) :
                /\ pending_emails[i].request = NoRequest
                /\ pending_emails[i].draft_email = NoDraft
    /\ InBatch =>
          /\ Range(items) = admitted
          /\ KeySet(pending_emails) \subseteq admitted
          /\ \A k \in MsgIds : walks[k] > 0 => k \in admitted
C25_LeftoverEntryDiscarded ==
    /\ BatchAt("prep")
    /\ dispatches = 1
    /\ calls.send_email = 1
    /\ outcome[email_id] = "done"
    /\ email_id \notin KeySet(pending_emails)

\* the nodes whose prep reads the entry's request
RequestReaders ==
    { "availability_checker", "action_decider", "meeting_scheduler",
      "schedule_confirmation", "time_proposal", "email_sender" }

\* C26: whenever a walk is at a node's prep, the keys that prep reads are in
\* the workspace: the message's entry; the request for the checker, the
\* decider and every node after them; the request's chosen_slot key, written
\* by the decider, for the scheduler; the event for the confirmation draft;
\* the draft and the request's meeting for the sender. No walk fails in a
\* prep.
C26_PrepFindsItsKeys ==
    /\ (node \in WalkNodes /\ stage = "prep") =>
          /\ ~crashed
          /\ HasMsg
          /\ node \in RequestReaders =>
                 /\ HasRequest
                 /\ "meeting" \in DOMAIN Msg.request
          /\ node = "meeting_scheduler" =>
                 /\ "chosen_slot" \in DOMAIN Msg.request
                 /\ "action_decider" \in Range(visited)
          /\ node = "schedule_confirmation" => Msg.request.event # NoEvent
          /\ node = "email_sender" => Msg.draft_email # NoDraft
C26_SenderPrepAfterProposal ==
    /\ At("email_sender", "prep")
    /\ "time_proposal" \in Range(visited)
    /\ Msg.draft_email = [body |-> "proposal"]
    /\ Msg.request.chosen_slot = NoSlot
    /\ Msg.request.event = NoEvent

====
